---- MODULE Spec2Model ----
(***************************************************************************)
(* Model of qe_mac_apid: the orchestrator `main` (src/src/main.rs) that    *)
(* opens config.plist inside an OpenCore qcow2 image, decides whether the  *)
(* platform identity and the Sequoia kernel patches have to be written,    *)
(* and writes the document back; and of the document operations of         *)
(* MacPlist (src/src/plist_data.rs).                                       *)
(*                                                                         *)
(* Strings whose content the code inspects are sequences: a line read from *)
(* stdin is a sequence of characters, a patch comment is a sequence of     *)
(* words (str::contains is a search for a contiguous run of them).         *)
(***************************************************************************)
EXTENDS Integers, Sequences, FiniteSets, TLC

\* Longest patch list of an initial document.
MaxPatches == 2

----------------------------------------------------------------------------
(* Text helpers                                                            *)

\* char::is_whitespace, on the characters the answers use
WhiteSpace == {" ", "\n", "\t", "\r"}

RECURSIVE TrimStart(_)
TrimStart(s) ==
    IF s # <<>> /\ Head(s) \in WhiteSpace THEN TrimStart(Tail(s)) ELSE s

RECURSIVE TrimEnd(_)
TrimEnd(s) ==
    IF s # <<>> /\ s[Len(s)] \in WhiteSpace
    THEN TrimEnd(SubSeq(s, 1, Len(s) - 1))
    ELSE s

\* str::trim
Trim(s) == TrimEnd(TrimStart(s))

\* u8::to_ascii_lowercase, on the letters the answers use
AsciiLower(c) ==
    CASE c = "Y" -> "y"
      [] c = "E" -> "e"
      [] c = "S" -> "s"
      [] c = "N" -> "n"
      [] OTHER -> c

\* str::eq_ignore_ascii_case
eq_ignore_ascii_case(a, b) ==
    /\ Len(a) = Len(b)
    /\ \A i \in 1..Len(a) : AsciiLower(a[i]) = AsciiLower(b[i])

\* str::contains, on word sequences
Contains(s, m) ==
    \E i \in 0..(Len(s) - Len(m)) : SubSeq(s, i + 1, i + Len(m)) = m

----------------------------------------------------------------------------
(* The configuration document                                              *)

MarkerVmmPresent == <<"kern.hv_vmm_present">>
MarkerVmDetection == <<"VM", "detection">>

\* A value of the patch array. kind "dict" is Value::Dictionary, anything
\* else is another plist kind; commentKind is the kind of the "Comment" key.
PatchValue(kind, commentKind, comment, body) ==
    [kind |-> kind, commentKind |-> commentKind, comment |-> comment,
     body |-> body]

patch1 ==
    PatchValue("dict", "string",
               <<"Disable", "VM", "detection", "(", "kern.hv_vmm_present",
                 "->", "hibernatecount", ")", "for", "Sequoia">>,
               "find=hibernatecount replace=hv_vmm_present")

patch2 ==
    PatchValue("dict", "string",
               <<"Disable", "VM", "detection", "(", "hibernatecount", "->",
                 "hv_vmm_present", ")", "for", "Sequoia">>,
               "find=hv_vmm_present replace=hibernatecount")

\* Records an image may already hold.
ExistingPatches ==
    { PatchValue("dict", "string", <<"Force", "FileVault", "on", "VM">>,
                 "filevault"),
      PatchValue("dict", "string", <<"Rename", "kern.hv_vmm_present">>,
                 "rename") }

\* The "Kernel" entry of the flattened top-level map. quirks stands for the
\* other keys of the dictionary; a value that is no dictionary has none.
KernelValue(kind, patchKind, patches) ==
    [kind |-> kind, patchKind |-> patchKind, patches |-> patches,
     quirks |-> IF kind = "dict" THEN "Quirks" ELSE "none"]

PatchLists == UNION { [1..n -> ExistingPatches] : n \in 0..MaxPatches }

KernelValues ==
    { KernelValue("absent", "absent", <<>>),
      KernelValue("string", "absent", <<>>),
      KernelValue("dict", "absent", <<>>),
      KernelValue("dict", "string", <<>>) }
    \cup { KernelValue("dict", "array", l) : l \in PatchLists }

SerialNumbers == {"", "NO_DEVICE_SN", "NO_LOGIC_BOARD_SN", "C02XK1AAJG5H"}
BoardSerials == {"", "NO_LOGIC_BOARD_SN", "NO_DEVICE_SN", "C02735200GUJG36CB"}
ProductNames == {"iMacPro1,1", "Unknown0,0"}

\* ROM of an image that has not been configured yet
FactoryRom == <<"0x11", "0x22", "0x33", "0x44", "0x55", "0x66">>
FactoryUuid == "00000000-0000-0000-0000-000000000000"

MacPlist(serial, mlb, product, uuidStr, romData, kernel) ==
    [system_serial_number |-> serial, mlb |-> mlb,
     system_product_name |-> product, system_uuid |-> uuidStr,
     rom |-> romData, kernel |-> kernel, misc |-> "Misc"]

Documents ==
    { MacPlist(s, m, p, FactoryUuid, FactoryRom, k) :
        s \in SerialNumbers, m \in BoardSerials, p \in ProductNames,
        k \in KernelValues }

NoDocument ==
    MacPlist("", "", "", "", <<>>, KernelValue("absent", "absent", <<>>))

get_product_name(p) == p.system_product_name
get_serial_number(p) == p.system_serial_number
get_mlb(p) == p.mlb

\* the board serial is not compared with its default value
has_valid_serials_NoMlbDefault(p) ==
    /\ get_serial_number(p) # ""
    /\ get_mlb(p) # ""
    /\ get_serial_number(p) # "NO_DEVICE_SN"

has_valid_serials(p) ==
    /\ get_serial_number(p) # ""
    /\ get_mlb(p) # ""
    /\ get_serial_number(p) # "NO_DEVICE_SN"
    /\ get_mlb(p) # "NO_LOGIC_BOARD_SN"

set_serial_number(p, s) == [p EXCEPT !.system_serial_number = s]
set_mlb(p, m) == [p EXCEPT !.mlb = m]

\* Uuid::to_string: the hyphenated lower-case form of the 128-bit value
UuidToString(u) ==
    CASE u = 1 -> "6f1c2a9e-3b7d-4c58-9a10-000000000001"
      [] u = 2 -> "6f1c2a9e-3b7d-4c58-9a10-000000000002"
      [] OTHER -> "00000000-0000-0000-0000-000000000000"

set_uuid(p, u) == [p EXCEPT !.system_uuid = UuidToString(u)]
set_rom(p, r) == [p EXCEPT !.rom = r]

\* the kind of the Comment value is not looked at
CommentHasMarker_AnyKind(v) ==
    /\ v.kind = "dict"
    /\ \/ Contains(v.comment, MarkerVmmPresent)
       \/ Contains(v.comment, MarkerVmDetection)

\* the closure shared by add_sequoia_kernel_patches and has_sequoia_patches
CommentHasMarker(v) ==
    /\ v.kind = "dict"
    /\ v.commentKind = "string"
    /\ \/ Contains(v.comment, MarkerVmmPresent)
       \/ Contains(v.comment, MarkerVmDetection)

has_sequoia_patches(p) ==
    /\ p.kernel.kind = "dict"
    /\ p.kernel.patchKind = "array"
    /\ \E i \in 1..Len(p.kernel.patches) : CommentHasMarker(p.kernel.patches[i])

\* the Kernel dictionary is built anew around the patch list
add_sequoia_kernel_patches_FreshKernel(p) ==
    LET k0 == p.kernel
        old == IF k0.kind = "dict" /\ k0.patchKind = "array"
               THEN k0.patches
               ELSE <<>>
        has_vmm_patch == \E i \in 1..Len(old) : CommentHasMarker(old[i])
    IN  [p EXCEPT !.kernel =
            [kind |-> "dict", patchKind |-> "array",
             patches |-> IF has_vmm_patch THEN old
                         ELSE old \o <<patch1, patch2>>,
             quirks |-> "none"]]

add_sequoia_kernel_patches(p) ==
    LET k0 == p.kernel
        \* entry("Kernel").or_insert_with(Dictionary::new)
        k1 == IF k0.kind = "absent"
              THEN [KernelValue("dict", "absent", <<>>) EXCEPT !.quirks = "none"]
              ELSE k0
        \* get or create the Patch array
        k2 == IF k1.kind = "dict" /\ k1.patchKind = "absent"
              THEN [k1 EXCEPT !.patchKind = "array", !.patches = <<>>]
              ELSE k1
        has_vmm_patch ==
            \E i \in 1..Len(k2.patches) : CommentHasMarker(k2.patches[i])
        k3 == IF k2.kind = "dict" /\ k2.patchKind = "array" /\ ~has_vmm_patch
              THEN [k2 EXCEPT !.patches = k2.patches \o <<patch1, patch2>>]
              ELSE k2
    IN  [p EXCEPT !.kernel = k3]

----------------------------------------------------------------------------
(* Inputs of a run                                                         *)

\* Args (clap): the four switches of the command line
ArgSets ==
    [dry_run : BOOLEAN, force_regenerate : BOOLEAN,
     add_sequoia_patches : BOOLEAN, force_sequoia_patches : BOOLEAN]

\* Lines read_line may deliver: <<>> is end of input
Answers ==
    { <<>>, <<"\n">>, <<"y", "\n">>, <<"Y", "\n">>, <<"y", "e", "s", "\n">>,
      <<" ", "Y", "e", "S", " ", "\r", "\n">>, <<"n", "\n">>,
      <<"y", "e", "\n">>, <<"y", "e", "s", "s", "\n">> }

NotAsked == [asked |-> FALSE, line |-> <<>>]
Asked(line) == [asked |-> TRUE, line |-> line]

\* what the file EFI/OC/config.plist holds
XmlFile(doc) == [kind |-> "xml", tree |-> doc]
MalformedFile == [kind |-> "malformed", tree |-> NoDocument]
EmptyFile == [kind |-> "empty", tree |-> NoDocument]
TornFile == [kind |-> "torn", tree |-> NoDocument]

\* plist::to_writer_xml / plist::from_reader
to_writer_xml(p) == XmlFile(p)
CanParse(f) == f.kind = "xml"
from_reader(f) == f.tree

\* serial::find_desired: the pairs the generator may return for a product
\* name it has a rule for, none for any other name
KnownProducts == {"iMacPro1,1"}
NoSerial == [serial_number |-> "", board_serial |-> ""]
find_desired(product) ==
    IF product \in KnownProducts
    THEN { [serial_number |-> "C02ZQ0AAHX87",
             board_serial |-> "C02947306QXHX8FA8"] }
    ELSE {}

\* Uuid::new_v4: the values the random source may deliver
NewUuids == {1, 2}

HEX_DIGITS ==
    <<"0", "1", "2", "3", "4", "5", "5", "6", "7", "8", "9", "a", "b", "c",
      "d", "e", "f">>

\* oui::APPLE_OUIS, each entry a string
APPLE_OUIS ==
    << <<"0", "0", "0", "3", "9", "3">>, <<"a", "c", "d", "e", "4", "8">> >>

\* the indexes `choose` may deliver for the six trailing bytes of the ROM
HexDraws ==
    { <<1, 2, 3, 4, 5, 6>>, <<7, 7, 17, 12, 1, 16>> }

\* [0; 12]
ZeroRom == [i \in 1..12 |-> "0x00"]

----------------------------------------------------------------------------
(* The run of main                                                         *)

VARIABLES
    pc,             \* the statement main is at
    args,           \* the command line
    file,           \* content of EFI/OC/config.plist in the image
    original,       \* content of that file when the run started
    plist,          \* the MacPlist in memory
    needs_update,
    serial, uuid, rom,
    patches_added,
    idPrompt,       \* the answer to "regenerate new serial numbers?"
    patchPrompt,    \* the answer to "add them now?"
    log,            \* the steps attempted so far, in order
    failedAt,       \* the step whose error ended the run, "" if none
    outcome         \* "running", then how the run ended

vars ==
    <<pc, args, file, original, plist, needs_update, serial, uuid, rom,
      patches_added, idPrompt, patchPrompt, log, failedAt, outcome>>

Init ==
    /\ pc = "open_image"
    /\ args \in ArgSets
    /\ file \in { XmlFile(d) : d \in Documents } \cup {MalformedFile}
    /\ original = file
    /\ plist = NoDocument
    /\ needs_update = FALSE
    /\ serial = NoSerial
    /\ uuid = 0
    /\ rom = <<>>
    /\ patches_added = FALSE
    /\ idPrompt = NotAsked
    /\ patchPrompt = NotAsked
    /\ log = <<>>
    /\ failedAt = ""
    /\ outcome = "running"

\* an Err that leaves main waiting instead of returning
Abort_Hangs(step) ==
    /\ pc' = "hung"
    /\ failedAt' = step
    /\ UNCHANGED outcome

\* `?` on an Err: main returns the error
Abort(step) ==
    /\ pc' = "done"
    /\ failedAt' = step
    /\ outcome' = "aborted"

\* a failed call is tried again instead of ending the run
Fallible_Retry(step, next) ==
    /\ pc = step
    /\ log' = Append(log, step)
    /\ \E ok \in BOOLEAN :
         /\ pc' = IF ok THEN next ELSE step
         /\ UNCHANGED <<failedAt, outcome>>

\* a call whose only effect here is that it may fail
Fallible(step, next) ==
    /\ pc = step
    /\ log' = Append(log, step)
    /\ \E ok \in BOOLEAN :
         IF ok
         THEN pc' = next /\ UNCHANGED <<failedAt, outcome>>
         ELSE Abort(step)

OpenImage ==
    /\ Fallible("open_image", "partition")
    /\ UNCHANGED <<args, file, original, plist, needs_update, serial, uuid,
                   rom, patches_added, idPrompt, patchPrompt>>

FirstPartitionSubset ==
    /\ Fallible("partition", "mount")
    /\ UNCHANGED <<args, file, original, plist, needs_update, serial, uuid,
                   rom, patches_added, idPrompt, patchPrompt>>

MountFileSystem ==
    /\ Fallible("mount", "open_file")
    /\ UNCHANGED <<args, file, original, plist, needs_update, serial, uuid,
                   rom, patches_added, idPrompt, patchPrompt>>

OpenFile ==
    /\ Fallible("open_file", "parse")
    /\ UNCHANGED <<args, file, original, plist, needs_update, serial, uuid,
                   rom, patches_added, idPrompt, patchPrompt>>

ParseDocument ==
    /\ pc = "parse"
    /\ log' = Append(log, "parse")
    /\ \E ok \in BOOLEAN :
         IF ok /\ CanParse(file)
         THEN /\ plist' = from_reader(file)
              /\ pc' = "identity_decision"
              /\ UNCHANGED <<failedAt, outcome>>
         ELSE /\ Abort("parse")
              /\ UNCHANGED plist
    /\ UNCHANGED <<args, file, original, needs_update, serial, uuid, rom,
                   patches_added, idPrompt, patchPrompt>>

\* the answer that asks for new serial numbers (main.rs:65)
WantsRegeneration(line) ==
    \/ eq_ignore_ascii_case(Trim(line), <<"y">>)
    \/ eq_ignore_ascii_case(Trim(line), <<"y", "e", "s">>)

\* the answer that accepts the offered patches (main.rs:134-135)
AcceptsPatches(line) ==
    \/ Trim(line) = <<>>
    \/ eq_ignore_ascii_case(Trim(line), <<"y">>)
    \/ eq_ignore_ascii_case(Trim(line), <<"y", "e", "s">>)

\* main.rs:54
KeepsCandidate == has_valid_serials(plist) /\ ~args.force_regenerate

\* the confirmation is asked in a dry run too
AsksIdentity_Always == TRUE

\* main.rs:60: the confirmation is asked
AsksIdentity == ~args.dry_run

IdentityDecision ==
    /\ pc = "identity_decision"
    /\ IF KeepsCandidate
       THEN IF AsksIdentity
            THEN /\ log' = Append(log, "ask_identity")
                 /\ \E ok \in BOOLEAN :
                      IF ok
                      THEN \E line \in Answers :
                             /\ idPrompt' = Asked(line)
                             /\ needs_update' = WantsRegeneration(line)
                             /\ pc' = "find_desired"
                             /\ UNCHANGED <<failedAt, outcome>>
                      ELSE /\ Abort("ask_identity")
                           /\ UNCHANGED <<idPrompt, needs_update>>
            ELSE /\ pc' = "find_desired"
                 /\ UNCHANGED <<needs_update, idPrompt, log, failedAt, outcome>>
       ELSE /\ needs_update' = TRUE
            /\ pc' = "find_desired"
            /\ UNCHANGED <<idPrompt, log, failedAt, outcome>>
    /\ UNCHANGED <<args, file, original, plist, serial, uuid, rom,
                   patches_added, patchPrompt>>

\* main.rs:75-82
FindDesired ==
    /\ pc = "find_desired"
    /\ IF needs_update
       THEN /\ log' = Append(log, "find_desired")
            /\ IF find_desired(get_product_name(plist)) = {}
               THEN /\ Abort("find_desired")
                    /\ UNCHANGED serial
               ELSE /\ serial' \in find_desired(get_product_name(plist))
                    /\ pc' = "new_uuid"
                    /\ UNCHANGED <<failedAt, outcome>>
       ELSE /\ serial' = [serial_number |-> get_serial_number(plist),
                          board_serial |-> get_mlb(plist)]
            /\ pc' = "new_uuid"
            /\ UNCHANGED <<log, failedAt, outcome>>
    /\ UNCHANGED <<args, file, original, plist, needs_update, uuid, rom,
                   patches_added, idPrompt, patchPrompt>>

\* main.rs:84-89: both branches draw a fresh value
NewUuid ==
    /\ pc = "new_uuid"
    /\ uuid' \in NewUuids
    /\ pc' = "gen_rom"
    /\ UNCHANGED <<args, file, original, plist, needs_update, serial, rom,
                   patches_added, idPrompt, patchPrompt, log, failedAt,
                   outcome>>

\* main.rs:91-112
GenRom ==
    /\ pc = "gen_rom"
    /\ IF needs_update
       THEN /\ log' = Append(log, "gen_rom")
            /\ IF Len(APPLE_OUIS) = 0
               THEN /\ Abort("gen_rom")
                    /\ UNCHANGED rom
               ELSE \E o \in 1..Len(APPLE_OUIS), d \in HexDraws :
                      IF Len(APPLE_OUIS[o]) # 6
                      THEN /\ Abort("gen_rom")
                           /\ UNCHANGED rom
                      ELSE /\ rom' = APPLE_OUIS[o]
                                     \o [k \in 1..6 |-> HEX_DIGITS[d[k]]]
                           /\ pc' = "patch_decision"
                           /\ UNCHANGED <<failedAt, outcome>>
       ELSE /\ rom' = ZeroRom
            /\ pc' = "patch_decision"
            /\ UNCHANGED <<log, failedAt, outcome>>
    /\ UNCHANGED <<args, file, original, plist, needs_update, serial, uuid,
                   patches_added, idPrompt, patchPrompt>>

\* main.rs:116
PatchesRequested == args.add_sequoia_patches \/ args.force_sequoia_patches

\* the marker is not looked for
InjectsRequested_Always == TRUE

\* main.rs:117
InjectsRequested == ~has_sequoia_patches(plist) \/ args.force_sequoia_patches

\* main.rs:126: the patches are offered
OffersPatches == ~has_sequoia_patches(plist)

\* main.rs:114-139
PatchDecision ==
    /\ pc = "patch_decision"
    /\ IF PatchesRequested
       THEN /\ IF InjectsRequested
               THEN /\ plist' = add_sequoia_kernel_patches(plist)
                    /\ patches_added' = TRUE
               ELSE UNCHANGED <<plist, patches_added>>
            /\ pc' = "dry_run_check"
            /\ UNCHANGED <<patchPrompt, log, failedAt, outcome>>
       ELSE IF OffersPatches
            THEN /\ log' = Append(log, "ask_patches")
                 /\ \E ok \in BOOLEAN :
                      IF ok
                      THEN \E line \in Answers :
                             /\ patchPrompt' = Asked(line)
                             /\ IF AcceptsPatches(line)
                                THEN /\ plist' = add_sequoia_kernel_patches(plist)
                                     /\ patches_added' = TRUE
                                ELSE UNCHANGED <<plist, patches_added>>
                             /\ pc' = "dry_run_check"
                             /\ UNCHANGED <<failedAt, outcome>>
                      ELSE /\ Abort("ask_patches")
                           /\ UNCHANGED <<plist, patches_added, patchPrompt>>
            ELSE /\ pc' = "dry_run_check"
                 /\ UNCHANGED <<plist, patches_added, patchPrompt, log,
                                failedAt, outcome>>
    /\ UNCHANGED <<args, file, original, needs_update, serial, uuid, rom,
                   idPrompt>>

\* the switch is not honoured
DryRun_Ignored == FALSE

\* the document is written back whether or not anything is pending
Pending_Always == TRUE

\* main.rs:141
DryRun == args.dry_run

\* main.rs:159
Pending == needs_update \/ patches_added

\* main.rs:141-156
DryRunReport ==
    /\ pc = "dry_run_check"
    /\ DryRun
    /\ pc' = "done"
    /\ outcome' = "simulated"
    /\ UNCHANGED <<args, file, original, plist, needs_update, serial, uuid,
                   rom, patches_added, idPrompt, patchPrompt, log, failedAt>>

\* the four setters are called whether or not the identity is pending
SetIdentity_Unconditional(p) ==
    set_rom(set_uuid(set_mlb(set_serial_number(p, serial.serial_number),
                             serial.board_serial),
                     uuid),
            rom)

\* main.rs:160-165: the four setters, only when the identity is pending
SetIdentity(p) ==
    IF needs_update
    THEN set_rom(set_uuid(set_mlb(set_serial_number(p, serial.serial_number),
                                  serial.board_serial),
                          uuid),
                 rom)
    ELSE p

\* main.rs:159-167
ApplyMutations ==
    /\ pc = "dry_run_check"
    /\ ~DryRun
    /\ Pending
    /\ plist' = SetIdentity(plist)
    /\ log' = Append(log, "apply")
    /\ pc' = "truncate"
    /\ UNCHANGED <<args, file, original, needs_update, serial, uuid, rom,
                   patches_added, idPrompt, patchPrompt, failedAt, outcome>>

\* main.rs:192-197
NoChanges ==
    /\ pc = "dry_run_check"
    /\ ~DryRun
    /\ ~Pending
    /\ pc' = "done"
    /\ outcome' = "unchanged"
    /\ UNCHANGED <<args, file, original, plist, needs_update, serial, uuid,
                   rom, patches_added, idPrompt, patchPrompt, log, failedAt>>

\* the virtual disk reader is flushed before the layers inside it
WriteBack_OuterFirst ==
    <<"truncate", "seek", "serialize", "flush_qcow2", "flush_file",
      "unmount", "flush_partition">>

\* main.rs:168-178: the statements of the write-back, in program order
WriteBack ==
    <<"truncate", "seek", "serialize", "flush_file", "unmount",
      "flush_partition", "flush_qcow2">>

\* the statement that follows `step`; the report follows the last one
StepAfter(step) ==
    LET i == CHOOSE k \in 1..Len(WriteBack) : WriteBack[k] = step
    IN  IF i < Len(WriteBack) THEN WriteBack[i + 1] ELSE "report"

\* main.rs:168-170
Truncate ==
    /\ pc = "truncate"
    /\ log' = Append(log, "truncate")
    /\ \E ok \in BOOLEAN :
         IF ok
         THEN /\ file' = EmptyFile
              /\ pc' = StepAfter("truncate")
              /\ UNCHANGED <<failedAt, outcome>>
         ELSE /\ file' \in {file, EmptyFile}
              /\ Abort("truncate")
    /\ UNCHANGED <<args, original, plist, needs_update, serial, uuid, rom,
                   patches_added, idPrompt, patchPrompt>>

\* main.rs:171
SeekStart ==
    /\ Fallible("seek", StepAfter("seek"))
    /\ UNCHANGED <<args, file, original, plist, needs_update, serial, uuid,
                   rom, patches_added, idPrompt, patchPrompt>>

\* main.rs:172: the serializer writes from the current position and does not
\* shorten the file
Serialize ==
    /\ pc = "serialize"
    /\ log' = Append(log, "serialize")
    /\ \E ok \in BOOLEAN :
         IF ok
         THEN /\ file' = IF file = EmptyFile
                         THEN to_writer_xml(plist)
                         ELSE TornFile
              /\ pc' = StepAfter("serialize")
              /\ UNCHANGED <<failedAt, outcome>>
         ELSE /\ file' = TornFile
              /\ Abort("serialize")
    /\ UNCHANGED <<args, original, plist, needs_update, serial, uuid, rom,
                   patches_added, idPrompt, patchPrompt>>

\* main.rs:174-175
FlushFile ==
    /\ Fallible("flush_file", StepAfter("flush_file"))
    /\ UNCHANGED <<args, file, original, plist, needs_update, serial, uuid,
                   rom, patches_added, idPrompt, patchPrompt>>

\* main.rs:176
Unmount ==
    /\ Fallible("unmount", StepAfter("unmount"))
    /\ UNCHANGED <<args, file, original, plist, needs_update, serial, uuid,
                   rom, patches_added, idPrompt, patchPrompt>>

\* main.rs:177
FlushPartition ==
    /\ Fallible("flush_partition", StepAfter("flush_partition"))
    /\ UNCHANGED <<args, file, original, plist, needs_update, serial, uuid,
                   rom, patches_added, idPrompt, patchPrompt>>

\* main.rs:178
FlushQcow2 ==
    /\ Fallible("flush_qcow2", StepAfter("flush_qcow2"))
    /\ UNCHANGED <<args, file, original, plist, needs_update, serial, uuid,
                   rom, patches_added, idPrompt, patchPrompt>>

\* main.rs:180-191, 197
ReportUpdated ==
    /\ pc = "report"
    /\ pc' = "done"
    /\ outcome' = "committed"
    /\ UNCHANGED <<args, file, original, plist, needs_update, serial, uuid,
                   rom, patches_added, idPrompt, patchPrompt, log, failedAt>>

Next ==
    \/ OpenImage
    \/ FirstPartitionSubset
    \/ MountFileSystem
    \/ OpenFile
    \/ ParseDocument
    \/ IdentityDecision
    \/ FindDesired
    \/ NewUuid
    \/ GenRom
    \/ PatchDecision
    \/ DryRunReport
    \/ ApplyMutations
    \/ NoChanges
    \/ Truncate
    \/ SeekStart
    \/ Serialize
    \/ FlushFile
    \/ Unmount
    \/ FlushPartition
    \/ FlushQcow2
    \/ ReportUpdated

Spec == Init /\ [][Next]_vars

----------------------------------------------------------------------------
(* Vocabulary of the properties                                            *)

WriteSteps ==
    {"truncate", "seek", "serialize", "flush_file", "unmount",
     "flush_partition", "flush_qcow2"}

\* the steps that precede the truncate step and may fail
EarlySteps ==
    {"open_image", "partition", "mount", "open_file", "parse",
     "ask_identity", "find_desired", "gen_rom", "ask_patches"}

Attempts(step) == Cardinality({ i \in DOMAIN log : log[i] = step })

IsWriteStep(step) == step \in WriteSteps
WriteLog == SelectSeq(log, IsWriteStep)
NoWrite == WriteLog = <<>>

IsPrefix(s, t) == Len(s) <= Len(t) /\ SubSeq(t, 1, Len(s)) = s

Finished == pc = "done"
Succeeded == outcome \in {"simulated", "unchanged", "committed"}

\* both decisions have been taken: the run is at or past main.rs:141
Decided ==
    \/ pc \in {"dry_run_check", "report"} \cup WriteSteps
    \/ Finished /\ (Succeeded \/ failedAt \in WriteSteps)

Identity(doc) ==
    <<doc.system_serial_number, doc.mlb, doc.system_uuid, doc.rom>>

----------------------------------------------------------------------------
(* C1: a dry run never truncates the file, never serializes to it and      *)
(* never flushes a layer, whatever the document, the switches and the      *)
(* answers are: the stored document stays what it was when the run         *)
(* started, and the run, when none of its steps reports an error, ends in  *)
(* success as a simulated commit.                                          *)
C1_DryRunNeverCommits ==
    args.dry_run =>
        /\ NoWrite
        /\ Attempts("apply") = 0
        /\ file = original
        /\ outcome \notin {"committed", "unchanged"}
        /\ Finished /\ failedAt = "" => outcome = "simulated"

\* a dry run that computed an identity and the patches, and reported them
C1_Witness ==
    /\ args.dry_run
    /\ outcome = "simulated"
    /\ needs_update
    /\ patches_added
    /\ plist.kernel # original.tree.kernel
    /\ serial # NoSerial

(* C2: in a run that writes, the steps are taken at most once each and in  *)
(* the order apply, truncate, seek to 0, serialize, flush the document     *)
(* stream, unmount the filesystem, flush the windowed store, flush the     *)
(* virtual disk reader; only a run that is not a dry run and has a pending *)
(* flag writes; the run is Committed only after every one of them, and     *)
(* such a run whose steps all succeed is Committed.                        *)
C2_Order ==
    <<"truncate", "seek", "serialize", "flush_file", "unmount",
      "flush_partition", "flush_qcow2">>

C2_CommitOrdering ==
    /\ IsPrefix(WriteLog, C2_Order)
    /\ Attempts("apply") <= 1
    /\ WriteLog # <<>> =>
          /\ ~args.dry_run
          /\ needs_update \/ patches_added
          /\ Attempts("apply") = 1
          /\ \A i, j \in DOMAIN log :
                log[i] = "apply" /\ log[j] \in WriteSteps => i < j
    /\ outcome = "committed" =>
          /\ WriteLog = C2_Order
          /\ failedAt = ""
          /\ file = to_writer_xml(plist)
    /\ pc = "report" => WriteLog = C2_Order
    /\ (Finished /\ Decided /\ ~args.dry_run
        /\ (needs_update \/ patches_added) /\ failedAt = "") =>
          outcome = "committed"

C2_Witness ==
    /\ outcome = "committed"
    /\ WriteLog = C2_Order
    /\ file # original

(* C3: when a step before the truncate step fails (image open, partition   *)
(* lookup, mount, file open, parse, reading an answer, identity or ROM     *)
(* generation) the run ends Aborted, no truncate, serialize or flush step  *)
(* has been or will be taken, the stored document is unchanged, and no     *)
(* step of the run was taken twice.                                        *)
C3_EarlyFailureAborts ==
    /\ failedAt \in EarlySteps =>
          /\ Finished
          /\ outcome = "aborted"
          /\ NoWrite
          /\ Attempts("apply") = 0
          /\ file = original
          /\ ~ENABLED Next
    /\ failedAt # "" => outcome = "aborted" /\ log[Len(log)] = failedAt
    /\ \A step \in EarlySteps \cup WriteSteps : Attempts(step) <= 1

\* the file opened, and what it holds is no property list
C3_Witness ==
    /\ failedAt = "parse"
    /\ original = MalformedFile
    /\ outcome = "aborted"
    /\ log = <<"open_image", "partition", "mount", "open_file", "parse">>

(* C4: a run in which neither the identity nor the patches are pending     *)
(* once both decisions are taken performs no truncate, no serialize and no *)
(* flush, leaves the stored document unchanged and ends in success.        *)
C4_UnchangedPath ==
    (Decided /\ ~needs_update /\ ~patches_added) =>
        /\ NoWrite
        /\ Attempts("apply") = 0
        /\ file = original
        /\ Finished => Succeeded
        /\ Finished /\ ~args.dry_run => outcome = "unchanged"

C4_Witness ==
    /\ outcome = "unchanged"
    /\ ~needs_update
    /\ ~patches_added
    /\ idPrompt.asked

\* the identity decision has been taken: the run is past main.rs:73
IdentityDecided ==
    /\ pc \notin {"open_image", "partition", "mount", "open_file", "parse",
                  "identity_decision"}
    /\ failedAt \notin {"open_image", "partition", "mount", "open_file",
                        "parse", "ask_identity"}

(* C5: the identity is pending exactly when the document has no valid      *)
(* identity, or regeneration is forced, or the identity is valid, not      *)
(* forced, the run is not a dry run and the answer to the confirmation is  *)
(* y or yes; a dry run with a valid identity and no force asks nothing and *)
(* keeps the identity.                                                     *)
C5_YesLines ==
    { <<"y", "\n">>, <<"Y", "\n">>, <<"y", "e", "s", "\n">>,
      <<" ", "Y", "e", "S", " ", "\r", "\n">> }

C5_IdentityDecision ==
    IdentityDecided =>
        LET valid == has_valid_serials(original.tree)
            forced == args.force_regenerate
        IN  /\ needs_update =
                  \/ ~valid
                  \/ forced
                  \/ /\ valid
                     /\ ~forced
                     /\ ~args.dry_run
                     /\ idPrompt.asked
                     /\ idPrompt.line \in C5_YesLines
            /\ idPrompt.asked = (valid /\ ~forced /\ ~args.dry_run)
            /\ Attempts("ask_identity") = IF idPrompt.asked THEN 1 ELSE 0
            /\ (valid /\ ~forced /\ args.dry_run) =>
                  ~idPrompt.asked /\ ~needs_update

\* a valid identity, no force, no dry run, and the answer " YeS "
C5_Witness ==
    /\ IdentityDecided
    /\ has_valid_serials(original.tree)
    /\ ~args.force_regenerate
    /\ idPrompt = Asked(<<" ", "Y", "e", "S", " ", "\r", "\n">>)
    /\ needs_update

(* C6: when patch injection is requested (add-patches or force-patches),   *)
(* the patches are pending exactly when the document does not hold the     *)
(* marker or the force switch is set; when it is requested, the marker is  *)
(* there and force is not set, the patches are not pending and the patch   *)
(* catalog of the document is left as it was.                              *)
C6_PatchDecisionRequested ==
    (Decided /\ (args.add_sequoia_patches \/ args.force_sequoia_patches)) =>
        LET present == has_sequoia_patches(original.tree)
        IN  /\ patches_added = (~present \/ args.force_sequoia_patches)
            /\ ~patchPrompt.asked
            /\ (present /\ ~args.force_sequoia_patches) =>
                  /\ ~patches_added
                  /\ plist.kernel = original.tree.kernel

C6_Witness ==
    /\ Decided
    /\ args.add_sequoia_patches
    /\ ~args.force_sequoia_patches
    /\ has_sequoia_patches(original.tree)
    /\ ~patches_added
    /\ Len(plist.kernel.patches) = 2

(* C7: a dry run never waits for an answer of the user: neither the        *)
(* identity confirmation nor the offer to inject the patches is made.      *)
C7_NoPromptInDryRun ==
    args.dry_run =>
        /\ ~idPrompt.asked
        /\ ~patchPrompt.asked
        /\ Attempts("ask_identity") = 0
        /\ Attempts("ask_patches") = 0

(* C8: a committed run with the force-patches switch, on a document whose  *)
(* patch list already holds a record with the marker, has appended the     *)
(* patch records again: the committed patch list is the original list      *)
(* followed by the injected records.                                       *)
C8_ForceAppendsAgain ==
    (/\ outcome = "committed"
     /\ args.force_sequoia_patches
     /\ has_sequoia_patches(original.tree)) =>
        file.tree.kernel.patches =
            original.tree.kernel.patches \o <<patch1, patch2>>

(* C9: in the document a committed run has written, the serial number, the *)
(* board serial, the UUID and the ROM are either all four the values       *)
(* generated in that run (identity pending) or all four the values of the  *)
(* original document (identity kept): a kept identity does not get a fresh *)
(* UUID or a zero ROM.                                                     *)
C9_IdentityAllOrNothing ==
    outcome = "committed" =>
        /\ file.kind = "xml"
        /\ IF needs_update
           THEN /\ Identity(file.tree) =
                      <<serial.serial_number, serial.board_serial,
                        UuidToString(uuid), rom>>
                /\ serial \in find_desired(original.tree.system_product_name)
                /\ uuid \in NewUuids
                /\ Len(rom) = 12
                /\ rom # ZeroRom
           ELSE /\ Identity(file.tree) = Identity(original.tree)
                /\ file.tree.system_uuid # UuidToString(uuid)
                /\ file.tree.rom # ZeroRom

\* the identity was kept and only the patches were written
C9_Witness ==
    /\ outcome = "committed"
    /\ ~needs_update
    /\ patches_added
    /\ uuid \in NewUuids
    /\ rom = ZeroRom
    /\ Identity(file.tree) = Identity(original.tree)

(* C10, as stated: has_valid_identity() is true exactly when the serial    *)
(* number and the board serial are both non-empty and neither of them is   *)
(* one of the placeholders "NO_DEVICE_SN", "NO_LOGIC_BOARD_SN".            *)
C10_Placeholders == {"NO_DEVICE_SN", "NO_LOGIC_BOARD_SN"}

C10_AnyPlaceholder ==
    has_valid_serials(plist) =
        /\ get_serial_number(plist) # ""
        /\ get_mlb(plist) # ""
        /\ get_serial_number(plist) \notin C10_Placeholders
        /\ get_mlb(plist) \notin C10_Placeholders

(* C10, amended: has_valid_identity() is true exactly when the serial      *)
(* number and the board serial are both non-empty, the serial number is    *)
(* not "NO_DEVICE_SN" and the board serial is not "NO_LOGIC_BOARD_SN":     *)
(* each field is compared with its own placeholder only. The identity      *)
(* decision of a forced-free dry run follows it.                           *)
C10_OwnPlaceholder(doc) ==
    /\ doc.system_serial_number # ""
    /\ doc.mlb # ""
    /\ doc.system_serial_number # "NO_DEVICE_SN"
    /\ doc.mlb # "NO_LOGIC_BOARD_SN"

C10_HasValidIdentity ==
    /\ has_valid_serials(plist) = C10_OwnPlaceholder(plist)
    /\ has_valid_serials(original.tree) = C10_OwnPlaceholder(original.tree)
    /\ (IdentityDecided /\ args.dry_run /\ ~args.force_regenerate) =>
          needs_update = ~C10_OwnPlaceholder(original.tree)

\* the serial number holds the placeholder of the board serial
C10_Witness ==
    /\ IdentityDecided
    /\ args.dry_run
    /\ ~args.force_regenerate
    /\ get_serial_number(plist) = "NO_LOGIC_BOARD_SN"
    /\ get_mlb(plist) = "C02735200GUJG36CB"
    /\ has_valid_serials(plist)
    /\ ~needs_update

----------------------------------------------------------------------------
(* The document operations called on their own                             *)

\* Most calls made on one document.
MaxCalls == 2

\* Values a Patch array may hold: dictionaries with and without a Comment,
\* with a Comment that is no string, with the marker in another key, and a
\* value that is no dictionary.
PatchSamples ==
    ExistingPatches \cup
    { PatchValue("dict", "absent", <<>>, "no comment"),
      PatchValue("dict", "data", <<"VM", "detection">>, "comment is data"),
      PatchValue("dict", "string", <<"Lilu", "patch">>,
                 "identifier=kern.hv_vmm_present"),
      PatchValue("string", "absent", <<>>, "VM detection") }

PlistKernels ==
    { KernelValue("absent", "absent", <<>>),
      KernelValue("string", "absent", <<>>),
      KernelValue("dict", "absent", <<>>),
      [KernelValue("dict", "absent", <<>>) EXCEPT !.quirks = "DisableIoMapper"],
      KernelValue("dict", "string", <<>>) }
    \cup { [KernelValue("dict", "array", l) EXCEPT !.quirks = q] :
             l \in UNION { [1..n -> PatchSamples] : n \in 0..MaxPatches },
             q \in {"Quirks", "DisableIoMapper"} }

PlistDocuments ==
    { MacPlist("NO_DEVICE_SN", "NO_LOGIC_BOARD_SN", "iMacPro1,1", FactoryUuid,
               FactoryRom, k) : k \in PlistKernels }

\* the arguments main may pass to the setters
SetterSerials == {"C02ZQ0AAHX87"}
SetterBoardSerials == {"C02947306QXHX8FA8"}
SetterRoms == { APPLE_OUIS[1] \o [k \in 1..6 |-> HEX_DIGITS[k]], ZeroRom }

InitPlist ==
    /\ pc = "plist"
    /\ args = [dry_run |-> FALSE, force_regenerate |-> FALSE,
               add_sequoia_patches |-> FALSE, force_sequoia_patches |-> FALSE]
    /\ plist \in PlistDocuments
    /\ file = XmlFile(plist)
    /\ original = file
    /\ needs_update = FALSE
    /\ serial = NoSerial
    /\ uuid = 0
    /\ rom = <<>>
    /\ patches_added = FALSE
    /\ idPrompt = NotAsked
    /\ patchPrompt = NotAsked
    /\ log = <<>>
    /\ failedAt = ""
    /\ outcome = "running"

\* a call of a MacPlist method: the document becomes `doc`, the call is
\* written to the log
PlistCall(name, doc) ==
    /\ pc = "plist"
    /\ Len(log) < MaxCalls
    /\ plist' = doc
    /\ log' = Append(log, name)
    /\ UNCHANGED <<pc, args, file, original, needs_update, serial, uuid, rom,
                   patches_added, idPrompt, patchPrompt, failedAt, outcome>>

CallAddPatches == PlistCall("add", add_sequoia_kernel_patches(plist))

\* the result is written to the log
CallHasPatches ==
    PlistCall(IF has_sequoia_patches(plist) THEN "has: true" ELSE "has: false",
              plist)

CallSetSerialNumber ==
    \E s \in SetterSerials : PlistCall("set", set_serial_number(plist, s))

CallSetMlb ==
    \E m \in SetterBoardSerials : PlistCall("set", set_mlb(plist, m))

CallSetUuid ==
    \E u \in NewUuids : PlistCall("set", set_uuid(plist, u))

CallSetRom ==
    \E r \in SetterRoms : PlistCall("set", set_rom(plist, r))

NextPlist ==
    \/ CallAddPatches
    \/ CallHasPatches
    \/ CallSetSerialNumber
    \/ CallSetMlb
    \/ CallSetUuid
    \/ CallSetRom

SpecPlist == InitPlist /\ [][NextPlist]_vars

----------------------------------------------------------------------------
(* Properties of the document operations                                   *)

\* the calls made so far are all of the kinds in `names`
OnlyCalls(names) == \A i \in DOMAIN log : log[i] \in names

HasCalls == {"has: true", "has: false"}

\* the document can take a patch list: the Kernel entry is missing or a
\* dictionary, and its Patch value is missing or an array
TakesPatches(doc) ==
    /\ doc.kernel.kind \in {"absent", "dict"}
    /\ doc.kernel.patchKind \in {"absent", "array"}

(* C12: inject_patch_catalog on a document without catalog section creates *)
(* the catalog map and one patch list that holds exactly the injected      *)
(* records in the order given; on a document with a patch list the result  *)
(* is the records it had, unchanged and in their order, followed by the    *)
(* injected records in the order given.                                    *)
C12_InjectResult ==
    log = <<"add">> =>
        /\ original.tree.kernel.kind = "absent" =>
              /\ plist.kernel.kind = "dict"
              /\ plist.kernel.patchKind = "array"
              /\ plist.kernel.patches = <<patch1, patch2>>
        /\ (/\ original.tree.kernel.kind = "dict"
            /\ original.tree.kernel.patchKind = "array") =>
              /\ plist.kernel.kind = "dict"
              /\ plist.kernel.patchKind = "array"
              /\ plist.kernel.patches =
                    original.tree.kernel.patches \o <<patch1, patch2>>

(* C13: on every document for which has_patch_catalog_entry is false, also *)
(* one whose catalog section is missing, has no patch list or holds a      *)
(* value of another kind, has_patch_catalog_entry is true once             *)
(* inject_patch_catalog has been applied.                                  *)
C13_InjectMakesPresent ==
    (OnlyCalls({"add"}) /\ log # <<>>
     /\ ~has_sequoia_patches(original.tree)) =>
        has_sequoia_patches(plist)

(* C14: inject_patch_catalog makes no presence check of its own: it        *)
(* appends the records whenever it is called, and two calls in a row leave *)
(* the injected records twice in the patch list.                           *)
C14_InjectAppendsUnconditionally ==
    (log = <<"add", "add">> /\ TakesPatches(original.tree)) =>
        plist.kernel.patches =
            original.tree.kernel.patches
                \o <<patch1, patch2>> \o <<patch1, patch2>>

(* C15: the setters of the identity change the serial number, the board    *)
(* serial, the UUID and the ROM and nothing else: the product name, the    *)
(* passthrough keys and the Kernel entry stay. inject_patch_catalog        *)
(* changes the patch list of the Kernel entry and nothing else: the        *)
(* identity, the other top-level keys and the other keys of the Kernel     *)
(* dictionary stay, and the records the list held stay as they were, at    *)
(* the head of the list.                                                   *)
C15_FrameOfMutations ==
    LET o == original.tree
    IN  pc = "plist" =>
        /\ plist.system_product_name = o.system_product_name
        /\ plist.misc = o.misc
        /\ OnlyCalls({"set"} \cup HasCalls) => plist.kernel = o.kernel
        /\ OnlyCalls({"add"} \cup HasCalls) => Identity(plist) = Identity(o)
        /\ plist.kernel.quirks = o.kernel.quirks
        /\ IsPrefix(o.kernel.patches, plist.kernel.patches)
        /\ o.kernel.kind # "absent" => plist.kernel.kind = o.kernel.kind
        /\ o.kernel.patchKind # "absent" =>
              plist.kernel.patchKind = o.kernel.patchKind
        /\ \A i \in DOMAIN plist.kernel.patches :
              i > Len(o.kernel.patches) =>
                  plist.kernel.patches[i] \in {patch1, patch2}

\* the patches were appended to a list of two records in a Kernel dictionary
\* with other keys, and a setter was called
C15_Witness ==
    /\ log = <<"add", "set">>
    /\ original.tree.kernel.quirks = "DisableIoMapper"
    /\ Len(original.tree.kernel.patches) = 2
    /\ Len(plist.kernel.patches) = 4
    /\ Identity(plist) # Identity(original.tree)

(* C16: has_patch_catalog_entry is true exactly when the Kernel entry is a *)
(* dictionary whose Patch value is an array with at least one dictionary   *)
(* whose Comment is a string containing "kern.hv_vmm_present" or           *)
(* "VM detection"; it is false when either is missing or of another kind,  *)
(* and no key other than Comment decides it.                               *)
C16_MarkedComments ==
    { <<"Rename", "kern.hv_vmm_present">>,
      <<"Disable", "VM", "detection", "(", "kern.hv_vmm_present", "->",
        "hibernatecount", ")", "for", "Sequoia">>,
      <<"Disable", "VM", "detection", "(", "hibernatecount", "->",
        "hv_vmm_present", ")", "for", "Sequoia">> }

C16_Present(doc) ==
    /\ doc.kernel.kind = "dict"
    /\ doc.kernel.patchKind = "array"
    /\ \E i \in DOMAIN doc.kernel.patches :
          /\ doc.kernel.patches[i].kind = "dict"
          /\ doc.kernel.patches[i].commentKind = "string"
          /\ doc.kernel.patches[i].comment \in C16_MarkedComments

C16_HasPatchCatalogEntry ==
    pc = "plist" =>
        /\ has_sequoia_patches(plist) = C16_Present(plist)
        /\ (log # <<>> /\ log[Len(log)] = "has: true") => C16_Present(plist)
        /\ (log # <<>> /\ log[Len(log)] = "has: false") => ~C16_Present(plist)

\* the marker is in a Comment that is no string and in another key
C16_Witness ==
    /\ log = <<"has: false">>
    /\ Len(plist.kernel.patches) = 2
    /\ plist.kernel.patches[1].commentKind = "data"
    /\ plist.kernel.patches[1].comment = <<"VM", "detection">>
    /\ plist.kernel.patches[2].body = "identifier=kern.hv_vmm_present"

----------------------------------------------------------------------------
(* The program run again on the image a committed run has left             *)

\* the switches of a second, non-forced run with the same add-patches request
SecondArgs ==
    { a \in ArgSets :
        /\ ~a.force_regenerate
        /\ ~a.force_sequoia_patches
        /\ a.add_sequoia_patches = args.add_sequoia_patches }

InSecondRun == log # <<>> /\ log[1] = "rerun"

\* main is entered again: it starts from the file the first run has written
SecondRun ==
    /\ pc = "done"
    /\ outcome = "committed"
    /\ ~InSecondRun
    /\ args' \in SecondArgs
    /\ original' = file
    /\ pc' = "open_image"
    /\ plist' = NoDocument
    /\ needs_update' = FALSE
    /\ serial' = NoSerial
    /\ uuid' = 0
    /\ rom' = <<>>
    /\ patches_added' = FALSE
    /\ idPrompt' = NotAsked
    /\ patchPrompt' = NotAsked
    /\ log' = <<"rerun">>
    /\ failedAt' = ""
    /\ outcome' = "running"
    /\ UNCHANGED file

NextRuns == Next \/ SecondRun

SpecRuns == Init /\ [][NextRuns]_vars

(* C11: after a run that reached Committed, a second run without force     *)
(* switches and with the same add-patches request, in which the user keeps *)
(* the identity (and takes no patches that are offered), finds a valid     *)
(* identity, sets neither pending flag, writes nothing and leaves the      *)
(* stored document as the first run left it.                               *)
C11_KeepLines ==
    { <<>>, <<"\n">>, <<"n", "\n">>, <<"y", "e", "\n">>,
      <<"y", "e", "s", "s", "\n">> }

C11_DeclineLines ==
    { <<"n", "\n">>, <<"y", "e", "\n">>, <<"y", "e", "s", "s", "\n">> }

C11_IdempotentAcrossRuns ==
    (/\ InSecondRun
     /\ Decided
     /\ idPrompt.asked => idPrompt.line \in C11_KeepLines
     /\ patchPrompt.asked => patchPrompt.line \in C11_DeclineLines) =>
        /\ has_valid_serials(original.tree)
        /\ ~needs_update
        /\ ~patches_added
        /\ NoWrite
        /\ file = original

----------------------------------------------------------------------------
(* The return of main: the locals still alive are dropped                  *)

\* main.rs:38, 39, 41, 44: the locals that hold a resource, in the order of
\* their declarations, each with the step that acquires it
Locals == <<"qcow2", "first_partition", "fs", "conf_plist">>

AcquiredBy(local) ==
    CASE local = "qcow2" -> "open_image"
      [] local = "first_partition" -> "partition"
      [] local = "fs" -> "mount"
      [] local = "conf_plist" -> "open_file"

DropOf(local) ==
    CASE local = "qcow2" -> "drop_qcow2"
      [] local = "first_partition" -> "drop_partition"
      [] local = "fs" -> "drop_fs"
      [] local = "conf_plist" -> "drop_file"

Reverse(s) == [i \in 1..Len(s) |-> s[Len(s) + 1 - i]]

\* locals dropped in the order of their declarations
DropOrder_Declaration == Locals

\* a scope drops its locals in the reverse order of their declarations
DropOrder == Reverse(Locals)

\* the step was attempted and did not fail
Passed(step) == Attempts(step) > 0 /\ failedAt # step

\* main.rs:175 drops conf_plist once its flush has passed; main.rs:176 moves
\* fs into unmount, whatever unmount returns
MovedOut(local) ==
    \/ local = "conf_plist" /\ Passed("flush_file")
    \/ local = "fs" /\ Attempts("unmount") > 0

LiveAtExit(local) == Passed(AcquiredBy(local)) /\ ~MovedOut(local)

RECURSIVE DropsOf(_)
DropsOf(order) ==
    IF order = <<>>
    THEN <<>>
    ELSE (IF LiveAtExit(Head(order)) THEN <<DropOf(Head(order))>> ELSE <<>>)
         \o DropsOf(Tail(order))

Exited == log # <<>> /\ log[Len(log)] = "return"

\* main.rs:155, 197 and every `?` of main: the return drops the live locals
ReturnFromMain ==
    /\ pc = "done"
    /\ ~Exited
    /\ log' = log \o DropsOf(DropOrder) \o <<"return">>
    /\ UNCHANGED <<pc, args, file, original, plist, needs_update, serial,
                   uuid, rom, patches_added, idPrompt, patchPrompt, failedAt,
                   outcome>>

NextExit == Next \/ ReturnFromMain

SpecExit == Init /\ [][NextExit]_vars

\* the positions in the log at which a layer is flushed or released
Positions(steps) == { i \in DOMAIN log : log[i] \in steps }

StreamEvents == {"flush_file", "drop_file"}
MountEvents == {"unmount", "drop_fs"}
StoreEvents == {"flush_partition", "drop_partition"}
ReaderEvents == {"flush_qcow2", "drop_qcow2"}
FlushEvents == {"flush_file", "unmount", "flush_partition", "flush_qcow2"}

Before(earlier, later) ==
    \A i \in Positions(earlier), j \in Positions(later) : i < j

\* the resource is no longer held when main has returned
Released(local) == MovedOut(local) \/ Positions({DropOf(local)}) # {}

(* C17: on every exit of a run that has attempted the truncation, an error *)
(* return from serialize or from a flush step included, the document       *)
(* stream and then the filesystem mount are flushed or released before the *)
(* windowed store and then the disk reader are flushed and closed, and     *)
(* nothing stays held; on every exit of a run in which no mutation was     *)
(* pending no layer is flushed.                                            *)
C17_ReleaseOrdering ==
    Exited =>
        /\ Attempts("truncate") > 0 =>
              /\ Before(StreamEvents \cup MountEvents,
                        StoreEvents \cup ReaderEvents)
              /\ Before(StreamEvents, MountEvents)
              /\ Before({"flush_partition"}, {"flush_qcow2"})
              /\ Before({"drop_partition"}, {"drop_qcow2"})
              /\ Before(FlushEvents, {"drop_partition", "drop_qcow2"})
              /\ \A k \in DOMAIN Locals : Released(Locals[k])
        /\ ~(needs_update \/ patches_added) => Positions(FlushEvents) = {}

\* the serializer failed after the truncation: all four locals are dropped
\* by the error return
C17_Witness ==
    /\ Exited
    /\ failedAt = "serialize"
    /\ Attempts("truncate") > 0
    /\ Positions({"drop_file"}) # {}
    /\ Positions({"drop_qcow2"}) # {}

----------------------------------------------------------------------------
\* the hexadecimal digit alphabet
HexAlphabet ==
    {"0", "1", "2", "3", "4", "5", "6", "7", "8", "9", "a", "b", "c", "d",
     "e", "f"}

\* the entries of the selection table that offer the digit
Offers(digit) == { i \in DOMAIN HEX_DIGITS : HEX_DIGITS[i] = digit }

Prefixes == { APPLE_OUIS[o] : o \in DOMAIN APPLE_OUIS }

(* C18: once a run with the identity pending has generated the ROM, the    *)
(* token has 12 bytes, its first 6 are a prefix of the vendor table and    *)
(* each of its last 6 is a hexadecimal digit drawn with equal weight: the  *)
(* selection table offers each of the 16 digits 0-9, a-f exactly once and  *)
(* offers nothing else.                                                    *)
C18_RomToken ==
    (needs_update /\ Passed("gen_rom")) =>
        /\ Len(rom) = 12
        /\ SubSeq(rom, 1, 6) \in Prefixes
        /\ \A k \in 7..12 : rom[k] \in HexAlphabet
        /\ \A i \in DOMAIN HEX_DIGITS : HEX_DIGITS[i] \in HexAlphabet
        /\ \A digit \in HexAlphabet : Cardinality(Offers(digit)) = 1

----------------------------------------------------------------------------
(* Runs whose every step returns                                           *)

\* main is sequential: the statement it stands at is executed, and a prompt
\* it waits at is answered
SpecFair == Init /\ [][Next]_vars /\ WF_vars(Next)

TerminalOutcomes == {"unchanged", "committed", "simulated", "aborted"}

\* main returns Ok(()), the success exit; an Err is the failure exit
ExitsWithSuccess == Finished /\ failedAt = ""
ExitsWithFailure == Finished /\ failedAt # ""

(* C19: every run whose prompts are answered ends, and it ends in exactly  *)
(* one of the outcomes unchanged, committed, simulated commit or aborted,  *)
(* which then stays; the first three are the success exit and aborted is   *)
(* the failure exit; committed or unchanged is not reached unless the      *)
(* document was parsed successfully before.                                *)
C19_OneTerminalOutcome ==
    /\ <>Finished
    /\ [](outcome \in TerminalOutcomes \cup {"running"})
    /\ [](Finished <=> outcome \in TerminalOutcomes)
    /\ [][(outcome \in TerminalOutcomes) => (outcome' = outcome)]_vars
    /\ [](Succeeded <=> ExitsWithSuccess)
    /\ [](outcome = "aborted" <=> ExitsWithFailure)
    /\ [](outcome \in {"committed", "unchanged"} => Passed("parse"))

\* a run that asked about the identity, kept it and had nothing to write
C19_Witness ==
    /\ Finished
    /\ outcome = "unchanged"
    /\ idPrompt.asked
    /\ Passed("parse")
    /\ ExitsWithSuccess

====
